---- MODULE Spec2Model ----
(***************************************************************************)
(* A model of scripts/cleanup_puzzles.py: the curation pipeline that       *)
(* deduplicates a source pool against the destination pool, scores the     *)
(* accepted records, draws a weighted selection, appends it to the         *)
(* destination pool and, when asked, rewrites the source pool.             *)
(*                                                                         *)
(* Numbers.  The script works on Python floats that carry two decimals     *)
(* (difficulty, quality).  They are modelled in fixed point, as integers   *)
(* counting hundredths: 2.5 is 250, 2.4 is 240, 10.0 is 1000, and the      *)
(* epsilon 0.1 is 10.  A weight (quality + 0.1) ** 2 is an integer         *)
(* counting ten-thousandths.                                               *)
(*                                                                         *)
(* Records.  A puzzle is a Python dict: a function from field names to     *)
(* values, whose fields may be absent.  Lists are sequences; a pool file   *)
(* is the list under its "puzzles" field, a missing file the empty list.   *)
(***************************************************************************)
EXTENDS Integers, Sequences, FiniteSets, TLC

VARIABLES
    source_file,        \* the pool persisted at --in
    dest_file,          \* the pool persisted at --out
    pc,                 \* where main is: idle, select, draw, selected, written, done
    limit,              \* args.limit
    trim,               \* args.trim
    rc,                 \* main's return value
    input_puzzles,      \* main: the source pool as loaded
    existing_puzzles,   \* main: the destination pool as loaded
    max_id,             \* main: get_max_puzzle_id(existing_puzzles)
    deduplicated,       \* main: what deduplicate_puzzles returned
    all_puzzles,        \* main: the flattened groups, scored
    available,          \* weighted_random_selection: remaining candidate indices
    selected_indices,   \* weighted_random_selection: chosen indices
    r,                  \* weighted_random_selection: the last drawn value
    chosen_idx,         \* weighted_random_selection: the last chosen index
    draws,              \* history: iterations of the draw loop in this call
    selected,           \* main: the sampler's first result
    unused,             \* main: the sampler's second result
    writes              \* history: the files written in this run, in order

vars == <<source_file, dest_file, pc, limit, trim, rc, input_puzzles,
          existing_puzzles, max_id, deduplicated, all_puzzles, available,
          selected_indices, r, chosen_idx, draws, selected, unused, writes>>

---------------------------------------------------------------------------
(* Bounds of the model. *)

\* The longest source pool the initial states hold.
MaxLen == 3

---------------------------------------------------------------------------
(* Python dicts and lists. *)

\* dict.get(k, default)
Get(p, k, default) == IF k \in DOMAIN p THEN p[k] ELSE default

\* p[k] = v
Set(p, k, v) == [f \in DOMAIN p \cup {k} |-> IF f = k THEN v ELSE p[f]]

\* p.pop(k, None)
Pop(p, k) == [f \in DOMAIN p \ {k} |-> p[f]]

\* The empty dict.
EmptyDict == << >>

Range(s) == {s[i] : i \in DOMAIN s}

SetMax(S) == CHOOSE m \in S : \A x \in S : x <= m

SetMin(S) == CHOOSE m \in S : \A x \in S : m <= x

\* sorted(S) for a set of integers.
RECURSIVE Sorted(_)
Sorted(S) == IF S = {} THEN << >> ELSE <<SetMin(S)>> \o Sorted(S \ {SetMin(S)})

\* [f(x) for x in s]
RECURSIVE Flatten(_)
Flatten(ss) == IF ss = << >> THEN << >> ELSE Head(ss) \o Flatten(Tail(ss))

\* sum(ws) for a list of integers.
RECURSIVE SumSeq(_)
SumSeq(ws) == IF ws = << >> THEN 0 ELSE Head(ws) + SumSeq(Tail(ws))

\* round(n / d, 0) for d > 0: the nearest integer, a tie going to the even
\* one, as Python's round does on a value it holds exactly.
RoundDiv(n, d) ==
    LET q == n \div d
        m == n % d
    IN  IF 2 * m < d THEN q
        ELSE IF 2 * m > d THEN q + 1
        ELSE IF q % 2 = 0 THEN q ELSE q + 1

---------------------------------------------------------------------------
(* The technique priority table (a part of it: one name of each kind the   *)
(* lookup distinguishes) and Python's str.upper and str.replace("_", " ")  *)
(* on the technique names the model uses.                                  *)

TECHNIQUE_PRIORITY ==
    ("NAKED_SINGLE" :> 1) @@ ("HIDDEN_SINGLE" :> 2) @@ ("Naked Pairs" :> 5)
    @@ ("X_WING_FISH" :> 11)

Upper(name) ==
    CASE name = "x_wing_fish" -> "X_WING_FISH"
      [] name = "Naked_Pairs" -> "NAKED_PAIRS"
      [] name = "Naked Pairs" -> "NAKED PAIRS"
      [] name = "Mystery"     -> "MYSTERY"
      [] OTHER                -> name

ReplaceUnderscore(name) ==
    CASE name = "x_wing_fish"   -> "x wing fish"
      [] name = "Naked_Pairs"   -> "Naked Pairs"
      [] name = "NAKED_SINGLE"  -> "NAKED SINGLE"
      [] name = "HIDDEN_SINGLE" -> "HIDDEN SINGLE"
      [] name = "X_WING_FISH"   -> "X WING FISH"
      [] OTHER                  -> name

get_technique_priority(name) ==
    IF name \in DOMAIN TECHNIQUE_PRIORITY THEN TECHNIQUE_PRIORITY[name]
    ELSE IF Upper(name) \in DOMAIN TECHNIQUE_PRIORITY
        THEN TECHNIQUE_PRIORITY[Upper(name)]
    ELSE IF ReplaceUnderscore(name) \in DOMAIN TECHNIQUE_PRIORITY
        THEN TECHNIQUE_PRIORITY[ReplaceUnderscore(name)]
    ELSE 100

---------------------------------------------------------------------------
(* The stages of the pipeline, as the functions of the script.             *)

load_puzzles(file) == file

get_max_puzzle_id(puzzles) ==
    IF puzzles = << >> THEN 0
    ELSE SetMax({Get(puzzles[i], "puzzleId", 0) : i \in DOMAIN puzzles})

\* A loop that never adds an accepted key to the seen set.
RECURSIVE DedupLoopForgetsSeen(_, _, _, _)
DedupLoopForgetsSeen(input, i, seen_givens, acc) ==
    IF i > Len(input) THEN acc
    ELSE IF Get(input[i], "givens", "") \in seen_givens
         THEN DedupLoopForgetsSeen(input, i + 1, seen_givens, acc)
         ELSE DedupLoopForgetsSeen(input, i + 1, seen_givens, Append(acc, input[i]))

\* The loop of deduplicate_puzzles from input index i on.
RECURSIVE DedupLoop(_, _, _, _)
DedupLoop(input, i, seen_givens, acc) ==
    IF i > Len(input) THEN acc
    ELSE LET givens == Get(input[i], "givens", "")
         IN  IF givens \in seen_givens
             THEN DedupLoop(input, i + 1, seen_givens, acc)
             ELSE DedupLoop(input, i + 1, seen_givens \cup {givens},
                            Append(acc, input[i]))

existing_givens(existing) ==
    {existing[i]["givens"] : i \in {j \in DOMAIN existing : "givens" \in DOMAIN existing[j]}}

\* A deduplicator that forgets the destination's keys.
deduplicate_ignoring_existing(input, existing) ==
    DedupLoop(input, 1, {}, << >>)

deduplicate_puzzles(input, existing) ==
    DedupLoop(input, 1, existing_givens(existing), << >>)

round_difficulty(difficulty) == (difficulty \div 250) * 250

\* groups[rounded].append(puzzle) on a dict that keeps insertion order:
\* a sequence of [key, val] entries.
GroupAppend(groups, rounded, puzzle) ==
    IF \E j \in DOMAIN groups : groups[j].key = rounded
    THEN [j \in DOMAIN groups |->
            IF groups[j].key = rounded
            THEN [key |-> rounded, val |-> Append(groups[j].val, puzzle)]
            ELSE groups[j]]
    ELSE Append(groups, [key |-> rounded, val |-> <<puzzle>>])

RECURSIVE GroupLoop(_, _, _)
GroupLoop(puzzles, i, groups) ==
    IF i > Len(puzzles) THEN groups
    ELSE LET rounded == round_difficulty(Get(puzzles[i], "difficulty", 0))
             puzzle  == Set(puzzles[i], "_rounded_difficulty", rounded)
         IN  GroupLoop(puzzles, i + 1, GroupAppend(groups, rounded, puzzle))

group_by_difficulty(puzzles) == GroupLoop(puzzles, 1, << >>)

count_technique_types(puzzle) ==
    Cardinality(DOMAIN Get(puzzle, "techniques", EmptyDict))

\* The body of calculate_quality_scores for one group.
ScoreGroup(puzzles) ==
    LET technique_counts == [i \in DOMAIN puzzles |-> count_technique_types(puzzles[i])]
        max_count == IF puzzles = << >> THEN 1 ELSE SetMax(Range(technique_counts))
    IN  [i \in DOMAIN puzzles |->
            Set(puzzles[i], "quality",
                IF max_count > 0
                THEN RoundDiv(technique_counts[i] * 1000, max_count)
                ELSE 0)]

\* A quality scorer that normalises by the maximum over all groups.
quality_scores_global_max(groups) ==
    LET counts == UNION {{count_technique_types(groups[j].val[i]) :
                            i \in DOMAIN groups[j].val} : j \in DOMAIN groups}
        max_count == IF counts = {} THEN 1 ELSE SetMax(counts)
    IN  [j \in DOMAIN groups |->
            [key |-> groups[j].key,
             val |-> [i \in DOMAIN groups[j].val |->
                        Set(groups[j].val[i], "quality",
                            IF max_count > 0
                            THEN RoundDiv(count_technique_types(groups[j].val[i]) * 1000,
                                          max_count)
                            ELSE 0)]]]

calculate_quality_scores(groups) ==
    [j \in DOMAIN groups |->
        [key |-> groups[j].key, val |-> ScoreGroup(groups[j].val)]]

RECURSIVE ComplexitySum(_, _)
ComplexitySum(techniques, names) ==
    IF names = {} THEN 0
    ELSE LET technique_name == CHOOSE n \in names : TRUE
         IN  get_technique_priority(technique_name) * techniques[technique_name]
             + ComplexitySum(techniques, names \ {technique_name})

calculate_complexity(puzzle) ==
    LET techniques == Get(puzzle, "techniques", EmptyDict)
    IN  ComplexitySum(techniques, DOMAIN techniques)

\* A span that reaches the next band.
NormalizedSpanFullBand == 240 + 10

\* The span, in hundredths, that the normalised complexity is spread over.
NormalizedSpan == 240

calculate_complexity_scores(puzzles) ==
    LET raw == [i \in DOMAIN puzzles |-> calculate_complexity(puzzles[i])]
        min_complexity == SetMin(Range(raw))
        max_complexity == SetMax(Range(raw))
        complexity_range == max_complexity - min_complexity
    IN  [i \in DOMAIN puzzles |->
            Set(Set(puzzles[i], "_raw_complexity", raw[i]),
                "difficulty",
                IF complexity_range > 0
                THEN RoundDiv(puzzles[i]["_rounded_difficulty"] * complexity_range
                                + (raw[i] - min_complexity) * NormalizedSpan,
                              complexity_range)
                ELSE puzzles[i]["_rounded_difficulty"])]

---------------------------------------------------------------------------
(* weighted_random_selection.                                              *)

\* A weight without the epsilon.
WeightNoEpsilon(puzzle) == Get(puzzle, "quality", 0) * Get(puzzle, "quality", 0)

\* (p.get('quality', 0) + 0.1) ** 2, in ten-thousandths.
Weight(puzzle) == (Get(puzzle, "quality", 0) + 10) * (Get(puzzle, "quality", 0) + 10)

\* [weights[i] for i in available]
RemainingWeights(puzzles, avail) == [k \in DOMAIN avail |-> Weight(puzzles[avail[k]])]

TotalWeight(puzzles, avail) == SumSeq(RemainingWeights(puzzles, avail))

\* The values random.random() * total_weight takes, by representatives: the
\* walk's outcome depends only on where the value lies among the running
\* sums, so the model draws 0, every running sum and the value just below
\* it, keeping those in [0, total_weight) (0 alone when the total is 0).
DrawValues(puzzles, avail) ==
    LET ws   == RemainingWeights(puzzles, avail)
        sums == {SumSeq(SubSeq(ws, 1, k)) : k \in DOMAIN ws}
    IN  {v \in {0} \cup sums \cup {c - 1 : c \in sums} :
            v >= 0 /\ (v < TotalWeight(puzzles, avail) \/ v = 0)}

\* The for loop over zip(available, remaining_weights) from position k on;
\* a walk that breaks nowhere leaves chosen_idx at available[0].
RECURSIVE Walk(_, _, _, _, _)
Walk(avail, ws, k, cumulative, rv) ==
    IF k > Len(avail) THEN avail[1]
    ELSE IF rv <= cumulative + ws[k] THEN avail[k]
    ELSE Walk(avail, ws, k + 1, cumulative + ws[k], rv)

ChosenIdx(puzzles, avail, rv) == Walk(avail, RemainingWeights(puzzles, avail), 1, 0, rv)

\* available.remove(chosen_idx): the first occurrence goes.
Remove(avail, idx) ==
    LET at == SetMin({k \in DOMAIN avail : avail[k] = idx})
    IN  SubSeq(avail, 1, at - 1) \o SubSeq(avail, at + 1, Len(avail))

\* A loop test that runs one iteration too many.
LoopContinuesOffByOne(sel, lim, avail) == Cardinality(sel) <= lim /\ avail # << >>

\* while len(selected_indices) < limit and available
LoopContinues(sel, lim, avail) == Cardinality(sel) < lim /\ avail # << >>

SelectedOf(puzzles, sel) == [k \in 1..Cardinality(sel) |-> puzzles[Sorted(sel)[k]]]

\* An unused list that keeps the selected records too.
UnusedKeepsAll(puzzles, sel) == puzzles

UnusedOf(puzzles, sel) ==
    LET idx == Sorted(DOMAIN puzzles \ sel)
    IN  [k \in DOMAIN idx |-> puzzles[idx[k]]]

---------------------------------------------------------------------------
(* The writers.                                                            *)

StripScratch(puzzle) == Pop(Pop(puzzle, "_rounded_difficulty"), "_raw_complexity")

\* Ids that start at start_id itself.
NewIdFromStart(start_id, k) == start_id + k - 1

\* current_id after k increments.
NewId(start_id, k) == start_id + k

\* The file write_output leaves.
write_output(existing, new_puzzles, start_id) ==
    existing \o [k \in DOMAIN new_puzzles |->
                    StripScratch(Set(new_puzzles[k], "puzzleId", NewId(start_id, k)))]

\* The file write_trim leaves.
write_trim(puzzles) == [k \in DOMAIN puzzles |-> StripScratch(puzzles[k])]

\* A flattening that walks the groups in sorted key order.
FlattenSortedKeys(groups) ==
    LET keys == Sorted({groups[j].key : j \in DOMAIN groups})
    IN  Flatten([k \in DOMAIN keys |->
                    (CHOOSE g \in Range(groups) : g.key = keys[k]).val])

\* [p for puzzles in groups.values() for p in puzzles]
FlattenGroups(groups) == Flatten([j \in DOMAIN groups |-> groups[j].val])

\* Steps 3 to 7 of main on the deduplicated batch.
ScoredBatch(batch) ==
    calculate_complexity_scores(
        FlattenGroups(calculate_quality_scores(group_by_difficulty(batch))))

---------------------------------------------------------------------------
(* The pools the model starts from.                                        *)

Techs0 == EmptyDict
Techs1 == ("NAKED_SINGLE" :> 1)
Techs2 == ("NAKED_SINGLE" :> 2) @@ ("HIDDEN_SINGLE" :> 1)
Techs3 == ("x_wing_fish" :> 2)
Techs4 == ("Naked_Pairs" :> 1) @@ ("Mystery" :> 1) @@ ("x_wing_fish" :> 1)

Puzzle(g, d, t) == [givens |-> g, difficulty |-> d, techniques |-> t]

\* Source records of the runs: three keys, one of them under two contents,
\* in two difficulty bands.
SourceRecords ==
    { Puzzle("a", 0, Techs1), Puzzle("b", 300, Techs2),
      Puzzle("c", 120, Techs0), Puzzle("a", 260, Techs3) }

\* Source records of the single pipeline pass: four keys, one of them under
\* two contents; difficulties at a band's two edges; a record with three
\* techniques and one with neither difficulty nor techniques.
WideRecords ==
    { Puzzle("a", 0, Techs1), Puzzle("b", 300, Techs2),
      Puzzle("c", 120, Techs0), Puzzle("c", 250, Techs1),
      Puzzle("d", 249, Techs4), [givens |-> "e"] }

\* A destination pool is empty (or missing), or holds a record promoted
\* earlier.
InitialDestinations ==
    { << >>,
      << [givens |-> "a", difficulty |-> 120, techniques |-> Techs1,
          quality |-> 1000, puzzleId |-> 7] >> }

Pools(records) == UNION {[1..n -> records] : n \in 0..MaxLen}

LimitValues == 0..MaxLen

NoLocals ==
    /\ limit = 0 /\ trim = FALSE /\ rc = 0
    /\ input_puzzles = << >> /\ existing_puzzles = << >> /\ max_id = 0
    /\ deduplicated = << >> /\ all_puzzles = << >>
    /\ available = << >> /\ selected_indices = {} /\ r = 0 /\ chosen_idx = 0
    /\ draws = 0 /\ selected = << >> /\ unused = << >> /\ writes = << >>

\* What is left of a process once it is gone: nothing.
ForgetLocals ==
    /\ limit' = 0 /\ trim' = FALSE /\ rc' = 0
    /\ input_puzzles' = << >> /\ existing_puzzles' = << >> /\ max_id' = 0
    /\ deduplicated' = << >> /\ all_puzzles' = << >>
    /\ available' = << >> /\ selected_indices' = {} /\ r' = 0 /\ chosen_idx' = 0
    /\ draws' = 0 /\ selected' = << >> /\ unused' = << >> /\ writes' = << >>

Init ==
    /\ source_file \in Pools(SourceRecords)
    /\ dest_file \in InitialDestinations
    /\ pc = "idle"
    /\ NoLocals

WideInit ==
    /\ source_file \in Pools(WideRecords)
    /\ dest_file \in InitialDestinations
    /\ pc = "idle"
    /\ NoLocals

---------------------------------------------------------------------------
(* main, one action per step that reads or writes a file or draws.         *)

SamplerIdle ==
    UNCHANGED <<available, selected_indices, r, chosen_idx, draws, selected, unused>>

\* main, the source pool is empty or missing: return 1.
LoadEmpty ==
    /\ pc = "idle"
    /\ load_puzzles(source_file) = << >>
    /\ \E l \in LimitValues, t \in BOOLEAN : limit' = l /\ trim' = t
    /\ input_puzzles' = << >>
    /\ rc' = 1
    /\ pc' = "done"
    /\ UNCHANGED <<source_file, dest_file, existing_puzzles, max_id,
                   deduplicated, all_puzzles, writes>>
    /\ SamplerIdle

\* main, nothing survives deduplication: return 0.
NothingNew ==
    /\ pc = "idle"
    /\ load_puzzles(source_file) # << >>
    /\ deduplicate_puzzles(load_puzzles(source_file), load_puzzles(dest_file)) = << >>
    /\ \E l \in LimitValues, t \in BOOLEAN : limit' = l /\ trim' = t
    /\ input_puzzles' = load_puzzles(source_file)
    /\ existing_puzzles' = load_puzzles(dest_file)
    /\ max_id' = get_max_puzzle_id(load_puzzles(dest_file))
    /\ deduplicated' = << >>
    /\ rc' = 0
    /\ pc' = "done"
    /\ UNCHANGED <<source_file, dest_file, all_puzzles, writes>>
    /\ SamplerIdle

\* main, steps 1 to 7: load both pools, deduplicate, group, score.
Prepare ==
    /\ pc = "idle"
    /\ load_puzzles(source_file) # << >>
    /\ deduplicate_puzzles(load_puzzles(source_file), load_puzzles(dest_file)) # << >>
    /\ \E l \in LimitValues, t \in BOOLEAN : limit' = l /\ trim' = t
    /\ input_puzzles' = load_puzzles(source_file)
    /\ existing_puzzles' = load_puzzles(dest_file)
    /\ max_id' = get_max_puzzle_id(load_puzzles(dest_file))
    /\ deduplicated' = deduplicate_puzzles(load_puzzles(source_file), load_puzzles(dest_file))
    /\ all_puzzles' = ScoredBatch(deduplicated')
    /\ pc' = "select"
    /\ UNCHANGED <<source_file, dest_file, rc, writes>>
    /\ SamplerIdle

\* weighted_random_selection, the returns before the loop.
SelectAll ==
    /\ pc = "select"
    /\ all_puzzles = << >> \/ limit >= Len(all_puzzles)
    /\ selected' = all_puzzles
    /\ unused' = << >>
    /\ pc' = "selected"
    /\ UNCHANGED <<source_file, dest_file, limit, trim, rc, input_puzzles,
                   existing_puzzles, max_id, deduplicated, all_puzzles,
                   available, selected_indices, r, chosen_idx, draws, writes>>

\* weighted_random_selection, up to the loop.
StartDraws ==
    /\ pc = "select"
    /\ ~(all_puzzles = << >> \/ limit >= Len(all_puzzles))
    /\ available' = [k \in 1..Len(all_puzzles) |-> k]
    /\ selected_indices' = {}
    /\ pc' = "draw"
    /\ UNCHANGED <<source_file, dest_file, limit, trim, rc, input_puzzles,
                   existing_puzzles, max_id, deduplicated, all_puzzles,
                   r, chosen_idx, draws, selected, unused, writes>>

\* weighted_random_selection, one iteration of the loop.
Draw ==
    /\ pc = "draw"
    /\ LoopContinues(selected_indices, limit, available)
    /\ \E rv \in DrawValues(all_puzzles, available) :
          /\ r' = rv
          /\ chosen_idx' = ChosenIdx(all_puzzles, available, rv)
    /\ selected_indices' = selected_indices \cup {chosen_idx'}
    /\ available' = Remove(available, chosen_idx')
    /\ draws' = draws + 1
    /\ UNCHANGED <<source_file, dest_file, pc, limit, trim, rc, input_puzzles,
                   existing_puzzles, max_id, deduplicated, all_puzzles,
                   selected, unused, writes>>

\* weighted_random_selection, after the loop.
EndDraws ==
    /\ pc = "draw"
    /\ ~LoopContinues(selected_indices, limit, available)
    /\ selected' = SelectedOf(all_puzzles, selected_indices)
    /\ unused' = UnusedOf(all_puzzles, selected_indices)
    /\ pc' = "selected"
    /\ UNCHANGED <<source_file, dest_file, limit, trim, rc, input_puzzles,
                   existing_puzzles, max_id, deduplicated, all_puzzles,
                   available, selected_indices, r, chosen_idx, draws, writes>>

\* main, nothing was selected: return 0.
NoSelection ==
    /\ pc = "selected"
    /\ selected = << >>
    /\ rc' = 0
    /\ pc' = "done"
    /\ UNCHANGED <<source_file, dest_file, limit, trim, input_puzzles,
                   existing_puzzles, max_id, deduplicated, all_puzzles,
                   available, selected_indices, r, chosen_idx, draws,
                   selected, unused, writes>>

\* main, step 9.
WriteOutput ==
    /\ pc = "selected"
    /\ selected # << >>
    /\ dest_file' = write_output(existing_puzzles, selected, max_id)
    /\ writes' = Append(writes, "dest")
    /\ pc' = "written"
    /\ UNCHANGED <<source_file, limit, trim, rc, input_puzzles,
                   existing_puzzles, max_id, deduplicated, all_puzzles,
                   available, selected_indices, r, chosen_idx, draws,
                   selected, unused>>

\* A trim that runs before the destination is written.
WriteTrimEarly ==
    /\ pc = "selected"
    /\ selected # << >>
    /\ trim
    /\ writes = << >>
    /\ source_file' = write_trim(unused)
    /\ writes' = Append(writes, "source")
    /\ UNCHANGED <<dest_file, pc, limit, trim, rc, input_puzzles,
                   existing_puzzles, max_id, deduplicated, all_puzzles,
                   available, selected_indices, r, chosen_idx, draws,
                   selected, unused>>

\* main, step 10 with --trim, and the return.
WriteTrim ==
    /\ pc = "written"
    /\ trim
    /\ source_file' = write_trim(unused)
    /\ writes' = Append(writes, "source")
    /\ rc' = 0
    /\ pc' = "done"
    /\ UNCHANGED <<dest_file, limit, trim, input_puzzles,
                   existing_puzzles, max_id, deduplicated, all_puzzles,
                   available, selected_indices, r, chosen_idx, draws,
                   selected, unused>>

\* main, step 10 without --trim, and the return.
SkipTrim ==
    /\ pc = "written"
    /\ ~trim
    /\ rc' = 0
    /\ pc' = "done"
    /\ UNCHANGED <<source_file, dest_file, limit, trim, input_puzzles,
                   existing_puzzles, max_id, deduplicated, all_puzzles,
                   available, selected_indices, r, chosen_idx, draws,
                   selected, unused, writes>>

\* The process has exited; only the two files stay.
Exit ==
    /\ pc = "done"
    /\ pc' = "idle"
    /\ ForgetLocals
    /\ UNCHANGED <<source_file, dest_file>>

\* The process dies in the middle of a run; only the two files stay.
Crash ==
    /\ pc \in {"select", "draw", "selected", "written"}
    /\ pc' = "idle"
    /\ ForgetLocals
    /\ UNCHANGED <<source_file, dest_file>>

Run ==
    \/ LoadEmpty \/ NothingNew \/ Prepare
    \/ SelectAll \/ StartDraws \/ Draw \/ EndDraws
    \/ NoSelection \/ WriteOutput \/ WriteTrim \/ SkipTrim

Next == Run \/ Exit \/ Crash

\* Runs of main one after another on the same two files.
Spec == Init /\ [][Next]_vars

\* One run of main from a wider set of pools.
PipelineSpec == WideInit /\ [][Run]_vars

---------------------------------------------------------------------------
(* Vocabulary of the properties.                                           *)

Key(puzzle) == Get(puzzle, "givens", "")

Keys(pool) == {Key(pool[i]) : i \in DOMAIN pool}

DistinctKeys(pool) ==
    \A i, j \in DOMAIN pool : i # j => Key(pool[i]) # Key(pool[j])

\* The band of a difficulty: the multiple of 2.5 at or just below it.
BandOf(difficulty) == difficulty - (difficulty % 250)

\* Where a key first occurs in the source pool as loaded.
Pos(g) == SetMin({i \in DOMAIN input_puzzles : Key(input_puzzles[i]) = g})

\* The band of the source record that a key was accepted with.
SourceBand(g) == BandOf(Get(input_puzzles[Pos(g)], "difficulty", 0))

\* Where the first accepted record of a band stands in the source pool.
FirstOfBand(b) ==
    SetMin({Pos(Key(deduplicated[i])) :
              i \in {j \in DOMAIN deduplicated : SourceBand(Key(deduplicated[j])) = b}})

Scored == pc \in {"select", "draw", "selected", "written", "done"}

Sampled == pc \in {"selected", "written", "done"}

SourceRewritten == pc = "done" /\ "source" \in Range(writes)

DestWritten == pc \in {"written", "done"} /\ "dest" \in Range(writes)

Min(a, b) == IF a <= b THEN a ELSE b

---------------------------------------------------------------------------
(* C1.  Trim complement.                                                   *)

\* C1 as claimed: after any run with trim, the source pool's keys are the
\* original source keys minus the keys selected in the run.
C1_TrimComplement_AsClaimed ==
    (pc = "done" /\ trim) =>
        Keys(source_file) = Keys(input_puzzles) \ Keys(selected)

\* C1, amended: after a run with trim, the source pool's keys are the
\* original source keys minus the selected keys and, when the run selected
\* at least one record (so that the source pool was rewritten), minus the
\* keys the destination pool held before the run.
C1_TrimComplement ==
    (pc = "done" /\ trim) =>
        IF selected # << >>
        THEN Keys(source_file) =
                Keys(input_puzzles) \ (Keys(selected) \cup Keys(existing_puzzles))
        ELSE Keys(source_file) = Keys(input_puzzles)

C1_Witness ==
    /\ pc = "done" /\ trim
    /\ selected # << >> /\ unused # << >>
    /\ Keys(input_puzzles) \cap Keys(existing_puzzles) # {}
    /\ "source" \in Range(writes)

---------------------------------------------------------------------------
(* C2.  The destination pool's keys stay pairwise distinct.                *)

\* C2: over any sequence of runs the keys of the destination pool are
\* pairwise distinct; a run selects no key the destination already holds
\* and no key twice.
C2_DestinationKeysDistinct ==
    /\ DistinctKeys(dest_file)
    /\ Sampled => /\ Keys(selected) \cap Keys(existing_puzzles) = {}
                  /\ DistinctKeys(selected)

\* A later run on a source that still holds a record promoted by an earlier
\* run, with a duplicate inside the source as well.
C2_Witness ==
    /\ pc = "written"
    /\ Len(dest_file) >= 3
    /\ \E i \in DOMAIN existing_puzzles :
          /\ existing_puzzles[i]["puzzleId"] # 7
          /\ Key(existing_puzzles[i]) \in Keys(input_puzzles)
    /\ ~DistinctKeys(input_puzzles)

---------------------------------------------------------------------------
(* C3.  Sequential ids.                                                    *)

\* C3: with M the destination pool's maximum id (0 if it is empty) and k
\* records selected, the written destination pool is the existing records,
\* unchanged, followed by the k selected records in selection order
\* (ascending batch order) carrying the ids M+1 .. M+k.
C3_SequentialIds ==
    DestWritten =>
        LET e == Len(existing_puzzles)
            k == Len(selected)
            ids == {Get(existing_puzzles[i], "puzzleId", 0) : i \in 1..e}
            M == IF e = 0 THEN 0 ELSE CHOOSE m \in ids : \A x \in ids : x <= m
            at(g) == CHOOSE i \in DOMAIN all_puzzles : Key(all_puzzles[i]) = g
        IN  /\ Len(dest_file) = e + k
            /\ \A i \in 1..e : dest_file[i] = existing_puzzles[i]
            /\ \A i \in 1..k :
                  /\ dest_file[e + i]["puzzleId"] = M + i
                  /\ Key(dest_file[e + i]) = Key(selected[i])
            /\ \A i, j \in 1..k : i < j => at(Key(selected[i])) < at(Key(selected[j]))

C3_Witness ==
    /\ pc = "written"
    /\ existing_puzzles # << >>
    /\ Len(selected) >= 2

---------------------------------------------------------------------------
(* C4.  The sampler's cardinality and partition.                           *)

\* C4: the draw loop runs at most limit iterations, each taking one more
\* candidate, whatever the drawn values; the sampler returns
\* min(limit, len(batch)) records, and selected and unused hold every batch
\* record exactly once between them.
C4_SamplerCardinality ==
    /\ pc = "draw" =>
          /\ draws = Cardinality(selected_indices)
          /\ draws <= limit
          /\ Len(available) = Len(all_puzzles) - draws
    /\ Sampled =>
          /\ Len(selected) = Min(limit, Len(all_puzzles))
          /\ Range(selected) \cap Range(unused) = {}
          /\ Range(selected) \cup Range(unused) = Range(all_puzzles)
          /\ Len(selected) + Len(unused) = Len(all_puzzles)

C4_Witness ==
    /\ pc = "selected"
    /\ draws = 2 /\ limit = 2
    /\ Len(selected) = 2 /\ Len(unused) = 1

---------------------------------------------------------------------------
(* C5.  Deduplication keeps first occurrences, in order.                   *)

\* C5: deduplicate_puzzles returns the input records that are the first
\* occurrence of a key the destination pool does not hold, in input order.
C5_DedupFirstOccurrences ==
    pc # "idle" =>
        LET accepted ==
                {i \in DOMAIN input_puzzles :
                    /\ Key(input_puzzles[i]) \notin Keys(existing_puzzles)
                    /\ \A j \in 1..(i - 1) : Key(input_puzzles[j]) # Key(input_puzzles[i])}
            order == Sorted(accepted)
        IN  /\ Len(deduplicated) = Cardinality(accepted)
            /\ \A k \in DOMAIN deduplicated : deduplicated[k] = input_puzzles[order[k]]

\* A batch with a repeat of an accepted key and a key of the destination.
C5_Witness ==
    /\ pc = "select"
    /\ Len(deduplicated) = 1
    /\ Len(input_puzzles) = 3
    /\ Keys(input_puzzles) \cap Keys(existing_puzzles) # {}
    /\ \E i, j \in DOMAIN input_puzzles :
          /\ i < j
          /\ Key(input_puzzles[i]) = Key(input_puzzles[j])
          /\ Key(input_puzzles[i]) \notin Keys(existing_puzzles)

---------------------------------------------------------------------------
(* C6.  Quality bounds.                                                    *)

\* C6: every scored record has 0 <= quality <= 10; every band holds a
\* record of quality 10.0, unless no record of the band has a technique,
\* and then every record of the band has quality 0.
C6_QualityBounds ==
    Scored =>
        \A i \in DOMAIN all_puzzles :
            LET band  == all_puzzles[i]["_rounded_difficulty"]
                peers == {j \in DOMAIN all_puzzles :
                            all_puzzles[j]["_rounded_difficulty"] = band}
                types(j) == Cardinality(DOMAIN Get(all_puzzles[j], "techniques", << >>))
            IN  /\ 0 <= all_puzzles[i]["quality"]
                /\ all_puzzles[i]["quality"] <= 1000
                /\ IF \A j \in peers : types(j) = 0
                   THEN \A j \in peers : all_puzzles[j]["quality"] = 0
                   ELSE \E j \in peers : all_puzzles[j]["quality"] = 1000

\* Two bands: one without any technique, one with a quality strictly
\* between 0 and 10.
C6_Witness ==
    /\ pc = "select"
    /\ \E i, j \in DOMAIN all_puzzles :
          /\ all_puzzles[i]["_rounded_difficulty"] # all_puzzles[j]["_rounded_difficulty"]
          /\ all_puzzles[i]["quality"] > 0 /\ all_puzzles[i]["quality"] < 1000
          /\ \A k \in DOMAIN all_puzzles :
                all_puzzles[k]["_rounded_difficulty"] = all_puzzles[j]["_rounded_difficulty"]
                    => all_puzzles[k]["quality"] = 0

---------------------------------------------------------------------------
(* C7.  The order of the rewritten source pool.                            *)

\* C7 as claimed: in the rewritten source pool the unselected records keep
\* the relative order they had in the original source pool.
C7_TrimOrder_AsClaimed ==
    SourceRewritten =>
        \A i, j \in DOMAIN source_file :
            i < j => Pos(Key(source_file[i])) < Pos(Key(source_file[j]))

\* C7, amended: in the rewritten source pool the unselected records stand
\* grouped by difficulty band, the bands in the order of their first
\* accepted record in the original source pool, and the records of one band
\* in the relative order they had in the original source pool.
C7_TrimOrder ==
    SourceRewritten =>
        /\ Keys(source_file) \subseteq Keys(deduplicated)
        /\ \A i, j \in DOMAIN source_file :
              i < j =>
                LET gi == Key(source_file[i])
                    gj == Key(source_file[j])
                IN  IF SourceBand(gi) = SourceBand(gj)
                    THEN Pos(gi) < Pos(gj)
                    ELSE FirstOfBand(SourceBand(gi)) < FirstOfBand(SourceBand(gj))

\* Bands interleave in the source, and the rewritten pool reorders it.
C7_Witness ==
    /\ SourceRewritten
    /\ \E i, j \in DOMAIN source_file :
          /\ i < j
          /\ Pos(Key(source_file[i])) > Pos(Key(source_file[j]))

---------------------------------------------------------------------------
(* C8.  The order of the two writes, and no key lost.                      *)

\* C8: a run writes the destination pool first and the source pool only
\* after it and only with trim; until then the source pool is as loaded;
\* and in every state of a run each key of the original source pool is in
\* the current source pool or in the current destination pool.
C8_WriteOrderNoKeyLost ==
    /\ writes \in {<< >>, <<"dest">>, <<"dest", "source">>}
    /\ "source" \in Range(writes) => trim
    /\ pc # "idle" =>
          /\ "source" \notin Range(writes) => source_file = input_puzzles
          /\ Keys(input_puzzles) \subseteq Keys(source_file) \cup Keys(dest_file)

\* Between the two writes: the promoted records are in both pools.
C8_Witness ==
    /\ pc = "written" /\ trim
    /\ writes = <<"dest">>
    /\ unused # << >>
    /\ Keys(selected) \subseteq Keys(source_file) \cap Keys(dest_file)

---------------------------------------------------------------------------
(* C9.  One weighted draw.                                                 *)

\* C9: in each draw the value r lies in [0, total weight of the remaining
\* candidates); the candidate chosen is the first remaining one, in batch
\* order, at which the running sum of the weights (quality + 0.1)^2 reaches
\* or exceeds r; it leaves the remaining candidates, whose order stays; and
\* each remaining candidate is the one chosen for some value of r.
C9_WeightedDraw ==
    [][ (pc = "draw" /\ draws' = draws + 1) =>
            LET w(k) == (Get(all_puzzles[available[k]], "quality", 0) + 10)
                        * (Get(all_puzzles[available[k]], "quality", 0) + 10)
                running[k \in 0..Len(available)] ==
                    IF k = 0 THEN 0 ELSE running[k - 1] + w(k)
                first == CHOOSE k \in DOMAIN available :
                            /\ running[k] >= r'
                            /\ \A m \in 1..(k - 1) : running[m] < r'
                NotChosen(x) == x # chosen_idx'
            IN  /\ 0 <= r' /\ r' < running[Len(available)]
                /\ \A k, m \in DOMAIN available : k < m => available[k] < available[m]
                /\ chosen_idx' = available[first]
                /\ available' = SelectSeq(available, NotChosen)
                /\ selected_indices' = selected_indices \cup {chosen_idx'}
                /\ Range(available) \subseteq
                      {ChosenIdx(all_puzzles, available, rv) :
                          rv \in DrawValues(all_puzzles, available)}
      ]_vars

\* A candidate of quality 0 that is not the first remaining one is drawn,
\* by a value that equals the running sum at it.
C9_Witness ==
    /\ pc = "draw"
    /\ draws >= 1
    /\ all_puzzles[chosen_idx]["quality"] = 0
    /\ \E i \in DOMAIN available : available[i] < chosen_idx
    /\ r = SumSeq([k \in 1..Cardinality({i \in DOMAIN available : available[i] < chosen_idx})
                    |-> Weight(all_puzzles[available[k]])])
           + Weight(all_puzzles[chosen_idx])

---------------------------------------------------------------------------
(* C10.  The refined difficulty stays in its band.                         *)

\* C10: a scored record's difficulty d satisfies band <= d <= band + 2.4,
\* band being the band of its original difficulty; d is band when all raw
\* complexities of the batch are equal; and the band of d is band again.
C10_RefinedDifficultyInBand ==
    Scored =>
        \A i \in DOMAIN all_puzzles :
            LET orig == CHOOSE j \in DOMAIN deduplicated :
                            Key(deduplicated[j]) = Key(all_puzzles[i])
                band == BandOf(Get(deduplicated[orig], "difficulty", 0))
                d    == all_puzzles[i]["difficulty"]
            IN  /\ band <= d
                /\ d <= band + 240
                /\ (\A j \in DOMAIN all_puzzles :
                        all_puzzles[j]["_raw_complexity"] = all_puzzles[i]["_raw_complexity"])
                    => d = band
                /\ BandOf(d) = band

\* A batch with the record of greatest complexity at band + 2.4, one
\* strictly inside its band, and one whose original difficulty was not at
\* the band's floor.
C10_Witness ==
    /\ pc = "select"
    /\ \E i, j, k \in DOMAIN all_puzzles :
          /\ all_puzzles[i]["difficulty"] = all_puzzles[i]["_rounded_difficulty"] + 240
          /\ all_puzzles[j]["difficulty"] > all_puzzles[j]["_rounded_difficulty"]
          /\ all_puzzles[j]["difficulty"] < all_puzzles[j]["_rounded_difficulty"] + 240
          /\ \E m \in DOMAIN deduplicated :
                /\ Key(deduplicated[m]) = Key(all_puzzles[k])
                /\ Get(deduplicated[m], "difficulty", 0) = 249

====
